---- MODULE Spec2Model ----
(***************************************************************************)
(* The persisted entity store declared by docs/backend/models.py: four     *)
(* tables (visitors, achievements, gallery, messages), their column        *)
(* constraints (primary key, NOT NULL, UNIQUE, FOREIGN KEY ... ON DELETE   *)
(* CASCADE), the column defaults (uuid4, now()) and to_dict.               *)
(*                                                                         *)
(* The file declares the schema only.  The operations Create, Read,        *)
(* Update, Delete and Serialize are those of section 4.1 of the            *)
(* specification; every integrity decision they take is delegated to an    *)
(* operator translated from the schema declaration.                        *)
(***************************************************************************)
EXTENDS Integers, FiniteSets, Sequences, TLC

\* ------------------------------------------------------------------ bounds
\* Identifiers are 1..MaxId (the values uuid.uuid4 or a caller can produce).
MaxId == 2
\* The storage clock now() runs over 1..MaxTime.
MaxTime == 2
\* Rows held by the four tables together (guard of Create in Next).
MaxRows == 3
\* Concurrent callers of the transactional specification.
NumCallers == 2

\* ------------------------------------------------------------------ values
\* None / SQL NULL in a UUID, DateTime or Integer column.
NULL == 0
\* None / SQL NULL in a String or Text column.
NULLSTR == "None"

IDs == 1..MaxId
Times == 1..MaxTime
Emails == {"a@x.com", "b@x.com"}
Texts == {"hi"}
Subjects == {"re"}

\* The identifiers and e-mail of the specification that exercises the clock:
\* one row per table is all a timestamp needs.
TimedIDs == {1}
TimedEmails == {"a@x.com"}

\* The identifiers of the transactional specification: two Visitors, so that
\* a Message can move from one to the other, and one Message.
TxVisitorIDs == {1, 2}
TxMessageIDs == {1}

\* Results of an operation (section 7 of the specification).
OK == "ok"
NotFound == "NotFound"
ConstraintViolation == "ConstraintViolation"
\* No constraint is violated.
NoViolation == "none"

\* ------------------------------------------------------------------ schema
Tables == {"visitors", "achievements", "gallery", "messages"}

\* The two tables of the one-to-many relationship.
OwnerTables == {"visitors", "messages"}

\* UUIDPrimaryKeyMixin
UUIDPrimaryKeyMixin == {"id"}

\* TimestampMixin
TimestampMixin == {"created_at", "updated_at"}

\* Visitor.__table__.columns
VisitorColumns ==
    UUIDPrimaryKeyMixin \cup TimestampMixin \cup {"email", "name", "subscribed_at"}

\* Achievement.__table__.columns
AchievementColumns ==
    UUIDPrimaryKeyMixin \cup TimestampMixin \cup {"title", "year", "description", "category"}

\* GalleryItem.__table__.columns
GalleryItemColumns ==
    UUIDPrimaryKeyMixin \cup TimestampMixin \cup {"image_url", "caption", "year"}

\* Message.__table__.columns: created_at is declared twice (mixin and class),
\* the table holds it once.
MessageColumns ==
    UUIDPrimaryKeyMixin \cup TimestampMixin
        \cup {"visitor_id", "subject", "content"} \cup {"created_at"}

Columns(t) ==
    CASE t = "visitors" -> VisitorColumns
      [] t = "achievements" -> AchievementColumns
      [] t = "gallery" -> GalleryItemColumns
      [] t = "messages" -> MessageColumns

\* Columns of type String or Text.
StringColumns ==
    {"email", "name", "title", "description", "category", "image_url", "caption",
     "subject", "content"}

\* The NULL of a column's type.
Null(c) == IF c \in StringColumns THEN NULLSTR ELSE NULL

\* Columns declared nullable=False (a primary key is NOT NULL too).
NotNullColumns(t) ==
    UUIDPrimaryKeyMixin \cup TimestampMixin \cup
    (CASE t = "visitors" -> {"email"}
       [] t = "achievements" -> {"title"}
       [] t = "gallery" -> {"image_url"}
       [] t = "messages" -> {"visitor_id", "content"})

\* Columns declared unique=True.
UniqueColumns(t) == IF t = "visitors" THEN {"email"} ELSE {}

\* visitor_id declared as a plain UUID column, without ForeignKey(...).
ForeignKeyColumns_None(t) == {}

\* Columns declared ForeignKey("visitors.id", ...).
ForeignKeyColumns(t) == IF t = "messages" THEN {"visitor_id"} ELSE {}

\* ------------------------------------------------------------ transactions
Callers == 1..NumCallers

\* No rows of any table.
NoRows == [t \in Tables |-> {}]

\* A caller with no transaction.
Idle == [pc |-> "idle"]

\* A caller whose statement stmt waits to be executed.
Waiting(stmt) == [pc |-> "waiting", stmt |-> stmt]

\* A caller whose statement is executed and not committed: the rows it deleted
\* or replaced (which it holds locked), the rows it inserted, and the visitors
\* ids its foreign-key checks hold locked against deletion.
Open(stmt, del, ins, share) ==
    [pc |-> "open", stmt |-> stmt, del |-> del, ins |-> ins, share |-> share]

\* ------------------------------------------------------------------- state
VARIABLES
    db,        \* db[t]: the rows of table t, each a record over Columns(t)
    now,       \* the storage engine's clock, func.now()
    op,        \* the last operation, <<name, table>>
    res,       \* its result: OK, NotFound or ConstraintViolation
    err,       \* the constraint a ConstraintViolation reports, else NoViolation
    ret,       \* what it returned: the stored, read, updated or deleted rows
    cascaded,  \* the messages rows the last delete removed by ON DELETE CASCADE
    everIds,   \* ids of every visitors row stored so far (history)
    tx         \* tx[c]: the transaction of caller c

vars == <<db, now, op, res, err, ret, cascaded, everIds, tx>>

visitors == db["visitors"]
achievements == db["achievements"]
gallery == db["gallery"]
messages == db["messages"]

Ids(rows) == {r.id : r \in rows}
RowCount == Cardinality(visitors) + Cardinality(achievements)
                + Cardinality(gallery) + Cardinality(messages)

\* ------------------------------------------------------------- constraints
\* A column declared without nullable=False.
NotNullOk_Nullable(t, row) == TRUE

\* nullable=False
NotNullOk(t, row) == \A c \in NotNullColumns(t) : row[c] # Null(c)

\* A key column declared without primary_key=True.
PrimaryKeyOk_NoKey(row, others) == TRUE

\* primary_key=True: no other row of the table has the id.
PrimaryKeyOk(row, others) == \A o \in others : o.id # row.id

\* A column declared without unique=True.
UniqueOk_NotUnique(t, row, others) == TRUE

\* unique=True: no other row has the value (NULLs never collide).
UniqueOk(t, row, others) ==
    \A c \in UniqueColumns(t) :
        row[c] # Null(c) => \A o \in others : o[c] # row[c]

\* A column declared without ForeignKey(...).
ForeignKeyOk_NoReference(t, row, parents) == TRUE

\* ForeignKey("visitors.id"): the referenced visitors row exists.
ForeignKeyOk(t, row, parents) ==
    \A c \in ForeignKeyColumns(t) :
        row[c] # Null(c) => \E p \in parents : p.id = row[c]

\* A foreign key declared without ondelete="CASCADE" that lets the parent go.
OnDeleteCascade_NoCascade(children, parentIds) == {}

\* ondelete="CASCADE": the messages rows that go with the deleted visitors ids.
OnDeleteCascade(children, parentIds) == {m \in children : m.visitor_id \in parentIds}

\* A foreign key that is not checked when the referenced id changes.
OnUpdateNoAction_Unchecked(children, oldIds, newIds) == TRUE

\* The foreign key declares no ON UPDATE action (NO ACTION): a visitors id that
\* messages rows reference cannot be changed away.
OnUpdateNoAction(children, oldIds, newIds) ==
    \A m \in children : m.visitor_id \in oldIds => m.visitor_id \in newIds

\* ---------------------------------------------------------------- defaults
\* default=uuid.uuid4 / server_default=func.now(): the value of a column the
\* INSERT leaves out; u is the value uuid4 drew, t the clock.
ColumnDefault(c, u, t) ==
    CASE c = "id" -> u
      [] c \in TimestampMixin -> t
      [] OTHER -> Null(c)

\* The row an INSERT of the fields f stores.
InsertRow(tbl, f, u, t) ==
    [c \in Columns(tbl) |-> IF c \in DOMAIN f THEN f[c] ELSE ColumnDefault(c, u, t)]

\* updated_at declared without onupdate=func.now().
OnUpdate_NoRefresh(c, old, t) == old[c]

\* onupdate=func.now(): updated_at of an UPDATE that does not set it.
OnUpdate(c, old, t) == IF c = "updated_at" THEN t ELSE old[c]

\* The row an UPDATE of the fields f leaves.
UpdateRow(tbl, old, f, t) ==
    [c \in Columns(tbl) |-> IF c \in DOMAIN f THEN f[c] ELSE OnUpdate(c, old, t)]

\* ---------------------------------------------------------------- to_dict
\* The mapped object of a row: its column attributes and its relationship
\* attribute (Message.visitor, Visitor.messages).
Load(t, row, d) ==
    CASE t = "messages" ->
            [a \in Columns(t) \cup {"visitor"} |->
                IF a = "visitor" THEN {v \in d["visitors"] : v.id = row.visitor_id}
                ELSE row[a]]
      [] t = "visitors" ->
            [a \in Columns(t) \cup {"messages"} |->
                IF a = "messages" THEN {m \in d["messages"] : m.visitor_id = row.id}
                ELSE row[a]]
      [] OTHER -> row

\* A to_dict that walks every attribute of the object instead of the columns.
to_dict_Attributes(self, columns) == self

\* ToDictMixin.to_dict
to_dict(self, columns) == [c \in columns |-> self[c]]

\* -------------------------------------------------------------- operations
Init ==
    /\ db = [t \in Tables |-> {}]
    /\ now = 1
    /\ op = <<"Init", "none">>
    /\ res = OK
    /\ err = NoViolation
    /\ ret = {}
    /\ cascaded = {}
    /\ everIds = {}
    /\ tx = [c \in Callers |-> Idle]

\* The constraint of table t that a row joining the rows others violates, in
\* the order the engine checks them: NOT NULL on the tuple, the primary key
\* and unique indexes on insertion, the foreign key at the end of the
\* statement.
Violation(t, row, others, d) ==
    CASE ~NotNullOk(t, row) -> "not_null"
      [] ~PrimaryKeyOk(row, others) -> "primary_key"
      [] ~UniqueOk(t, row, others) -> "unique"
      [] ~ForeignKeyOk(t, row, d["visitors"]) -> "foreign_key"
      [] OTHER -> NoViolation

\* The first violation among the rows news that join the rows rest.
FirstViolation(t, news, rest, d) ==
    LET bad == {n \in news : Violation(t, n, rest \cup (news \ {n}), d) # NoViolation} IN
    IF bad = {} THEN NoViolation
    ELSE LET n == CHOOSE x \in bad : TRUE IN Violation(t, n, rest \cup (news \ {n}), d)

\* The rows of table t that the primary key id selects.
Lookup(t, id) == {r \in db[t] : r.id = id}

\* An operation on an identifier that selects no row goes through without a
\* signal (an UPDATE or DELETE that matches no row is no error to the engine).
Found_Silent(rows) == TRUE

\* Whether the identifier of Read, Update or Delete selected a record.
Found(rows) == rows # {}

\* What Read(id) signals.
ReadResult(t, id) == IF Found(Lookup(t, id)) THEN OK ELSE NotFound

\* Create(fields): u is the identifier uuid4 draws when f supplies none.
Create(t, f, u) ==
    LET row == InsertRow(t, f, u, now) IN
    /\ op' = <<"Create", t>>
    /\ cascaded' = {}
    /\ UNCHANGED <<now, tx>>
    /\ err' = Violation(t, row, db[t], db)
    /\ IF err' = NoViolation
       THEN /\ db' = [db EXCEPT ![t] = @ \cup {row}]
            /\ res' = OK
            /\ ret' = {row}
            /\ everIds' = IF t = "visitors" THEN everIds \cup {row.id} ELSE everIds
       ELSE /\ res' = ConstraintViolation
            /\ ret' = {}
            /\ UNCHANGED <<db, everIds>>

\* Read(id)
Read(t, id) ==
    /\ op' = <<"Read", t>>
    /\ cascaded' = {}
    /\ res' = ReadResult(t, id)
    /\ err' = NoViolation
    /\ ret' = Lookup(t, id)
    /\ UNCHANGED <<db, now, everIds, tx>>

\* Update(id, partial fields)
Update(t, id, f) ==
    LET olds == Lookup(t, id)
        news == {UpdateRow(t, o, f, now) : o \in olds}
        rest == db[t] \ olds
    IN
    /\ op' = <<"Update", t>>
    /\ cascaded' = {}
    /\ UNCHANGED <<now, tx>>
    /\ err' = IF ~Found(olds) THEN NoViolation
              ELSE IF FirstViolation(t, news, rest, db) # NoViolation
                   THEN FirstViolation(t, news, rest, db)
              ELSE IF t = "visitors"
                        /\ ~OnUpdateNoAction(messages, Ids(olds), Ids(rest \cup news))
                   THEN "foreign_key"
              ELSE NoViolation
    /\ IF ~Found(olds)
       THEN /\ res' = NotFound
            /\ ret' = {}
            /\ UNCHANGED <<db, everIds>>
       ELSE IF err' = NoViolation
            THEN /\ db' = [db EXCEPT ![t] = rest \cup news]
                 /\ res' = OK
                 /\ ret' = news
                 /\ everIds' = IF t = "visitors" THEN everIds \cup Ids(news) ELSE everIds
            ELSE /\ res' = ConstraintViolation
                 /\ ret' = {}
                 /\ UNCHANGED <<db, everIds>>

\* Delete(id)
Delete(t, id) ==
    LET olds == Lookup(t, id)
        gone == IF t = "visitors" THEN OnDeleteCascade(messages, Ids(olds)) ELSE {}
    IN
    /\ op' = <<"Delete", t>>
    /\ err' = NoViolation
    /\ UNCHANGED <<now, everIds, tx>>
    /\ IF ~Found(olds)
       THEN /\ res' = NotFound
            /\ ret' = {}
            /\ cascaded' = {}
            /\ UNCHANGED db
       ELSE /\ db' = [x \in Tables |->
                        IF x = t THEN db[t] \ olds
                        ELSE IF x = "messages" THEN db[x] \ gone
                        ELSE db[x]]
            /\ res' = OK
            /\ ret' = olds
            /\ cascaded' = gone

\* Serialize(record) of the stored record id
Serialize(t, id) ==
    LET rows == Lookup(t, id) IN
    /\ op' = <<"Serialize", t>>
    /\ cascaded' = {}
    /\ res' = IF Found(rows) THEN OK ELSE NotFound
    /\ err' = NoViolation
    /\ ret' = {to_dict(Load(t, r, db), Columns(t)) : r \in rows}
    /\ UNCHANGED <<db, now, everIds, tx>>

\* The storage clock advances.
Tick ==
    /\ now < MaxTime
    /\ now' = now + 1
    /\ UNCHANGED <<db, op, res, err, ret, cascaded, everIds, tx>>

\* ------------------------------------------------- transactional operations
\* Each Create, Update and Delete runs as one transaction of the storage
\* engine (read committed): the caller issues the statement, the engine
\* executes it once no other open transaction holds a lock it needs, and the
\* transaction commits or is rolled back.

\* The transactions other than c's that are executed and not committed.
OpenOthers(c) == {o \in Callers \ {c} : tx[o].pc = "open"}

\* Rows of table t that another open transaction deleted or replaced.
LockedRows(c, t) == UNION {tx[o].del[t] : o \in OpenOthers(c)}

\* Rows of table t that another open transaction inserted.
PendingRows(c, t) == UNION {tx[o].ins[t] : o \in OpenOthers(c)}

\* visitors ids that a foreign-key check of another open transaction locked.
SharedIds(c) == UNION {tx[o].share : o \in OpenOthers(c)}

\* The visitors ids the foreign-key check of a row locks against deletion.
KeyShare(t, row) == {row[k] : k \in ForeignKeyColumns(t)} \ {NULL}

\* A row to be written waits for an open transaction that holds its key in
\* the primary-key or unique index, or that is deleting the row it references.
WriteWaits(c, t, row) ==
    \/ \E o \in PendingRows(c, t) \cup LockedRows(c, t) :
            ~PrimaryKeyOk(row, {o}) \/ ~UniqueOk(t, row, {o})
    \/ \E p \in LockedRows(c, "visitors") : p.id \in KeyShare(t, row)

\* The statement of caller c has to wait.
Blocked(c, stmt) ==
    LET t == stmt.t
        olds == Lookup(t, stmt.id)
    IN
    CASE stmt.kind = "Create" ->
            WriteWaits(c, t, InsertRow(t, stmt.f, stmt.id, now))
      [] stmt.kind = "Update" ->
            \/ olds \cap LockedRows(c, t) # {}
            \/ \E o \in olds : WriteWaits(c, t, UpdateRow(t, o, stmt.f, now))
      [] stmt.kind = "Delete" ->
            \/ olds \cap LockedRows(c, t) # {}
            \/ t = "visitors" /\ Ids(olds) \cap SharedIds(c) # {}
            \/ t = "visitors" /\
                  OnDeleteCascade(messages, Ids(olds)) \cap LockedRows(c, "messages") # {}

\* Caller c issues a statement.
Begin(c, stmt) ==
    /\ tx[c].pc = "idle"
    /\ tx' = [tx EXCEPT ![c] = Waiting(stmt)]
    /\ UNCHANGED <<db, now, op, res, err, ret, cascaded, everIds>>

\* The statement of caller c ends without a transaction left open.
Fails(c, stmt, result, violation) ==
    /\ tx' = [tx EXCEPT ![c] = Idle]
    /\ op' = <<stmt.kind, stmt.t>>
    /\ res' = result
    /\ err' = violation

\* The statement of caller c is executed and its transaction stays open.
Succeeds(c, stmt, del, ins, share) ==
    /\ tx' = [tx EXCEPT ![c] = Open(stmt, del, [NoRows EXCEPT ![stmt.t] = ins], share)]
    /\ op' = <<stmt.kind, stmt.t>>
    /\ res' = OK
    /\ err' = NoViolation

\* The engine executes the statement of caller c.
Execute(c) ==
    /\ tx[c].pc = "waiting"
    /\ ~Blocked(c, tx[c].stmt)
    /\ UNCHANGED <<db, now, ret, cascaded, everIds>>
    /\ LET stmt == tx[c].stmt
           t == stmt.t
           olds == Lookup(t, stmt.id)
           rest == db[t] \ olds
           row == InsertRow(t, stmt.f, stmt.id, now)
           news == {UpdateRow(t, o, stmt.f, now) : o \in olds}
           gone == IF t = "visitors" THEN OnDeleteCascade(messages, Ids(olds)) ELSE {}
       IN
       CASE stmt.kind = "Create" ->
               IF Violation(t, row, db[t], db) # NoViolation
               THEN Fails(c, stmt, ConstraintViolation, Violation(t, row, db[t], db))
               ELSE Succeeds(c, stmt, NoRows, {row}, KeyShare(t, row))
         [] stmt.kind = "Update" ->
               IF ~Found(olds)
               THEN Fails(c, stmt, NotFound, NoViolation)
               ELSE IF FirstViolation(t, news, rest, db) # NoViolation
               THEN Fails(c, stmt, ConstraintViolation, FirstViolation(t, news, rest, db))
               ELSE Succeeds(c, stmt, [NoRows EXCEPT ![t] = olds], news,
                             UNION {KeyShare(t, n) : n \in news})
         [] stmt.kind = "Delete" ->
               IF ~Found(olds)
               THEN Fails(c, stmt, NotFound, NoViolation)
               ELSE Succeeds(c, stmt, [NoRows EXCEPT !["messages"] = gone, ![t] = olds],
                             {}, {})

\* The rows caller c reads: the committed rows and its own uncommitted writes.
View(c) ==
    IF tx[c].pc = "open"
    THEN [t \in Tables |-> (db[t] \ tx[c].del[t]) \cup tx[c].ins[t]]
    ELSE db

\* The transaction of caller c commits.
Commit(c) ==
    /\ tx[c].pc = "open"
    /\ db' = View(c)
    /\ everIds' = everIds \cup Ids(tx[c].ins["visitors"])
    /\ tx' = [tx EXCEPT ![c] = Idle]
    /\ op' = <<"Commit", tx[c].stmt.t>>
    /\ res' = OK
    /\ err' = NoViolation
    /\ UNCHANGED <<now, ret, cascaded>>

\* The transaction of caller c is rolled back.
Rollback(c) ==
    /\ tx[c].pc = "open"
    /\ tx' = [tx EXCEPT ![c] = Idle]
    /\ op' = <<"Rollback", tx[c].stmt.t>>
    /\ res' = OK
    /\ err' = NoViolation
    /\ UNCHANGED <<db, now, ret, cascaded, everIds>>

\* ------------------------------------------------------------------ inputs
NoFields == [c \in {} |-> NULL]

\* The required column of a table other than messages.
RequiredColumn(t) ==
    CASE t = "visitors" -> "email"
      [] t = "achievements" -> "title"
      [] t = "gallery" -> "image_url"

RequiredValues(t, emails) == IF t = "visitors" THEN emails ELSE Texts

\* Fields a caller hands to Create: with and without the required columns,
\* with and without an identifier of its own.
CreateFields(t, ids, emails) ==
    IF t = "messages"
    THEN {NoFields}
         \cup {[content |-> c] : c \in Texts}
         \cup {[visitor_id |-> v] : v \in ids}
         \cup {[visitor_id |-> v, content |-> c] :
                    v \in ids \cup {NULL}, c \in Texts \cup {NULLSTR}}
         \cup {[visitor_id |-> v, content |-> c, subject |-> s] :
                    v \in ids, c \in Texts, s \in Subjects}
         \cup {[id |-> i, visitor_id |-> v, content |-> c] :
                    i \in ids, v \in ids, c \in Texts}
    ELSE {NoFields}
         \cup {[c \in {RequiredColumn(t)} |-> x] :
                    x \in RequiredValues(t, emails) \cup {NULLSTR}}
         \cup {[c \in {"id", RequiredColumn(t)} |->
                    IF c = "id" THEN i ELSE x] :
                    i \in ids, x \in RequiredValues(t, emails)}

\* Fields with every required column present and no identifier.
ValidFields(t, ids, emails) ==
    IF t = "messages"
    THEN {[visitor_id |-> v, content |-> c] : v \in ids, c \in Texts}
    ELSE {[c \in {RequiredColumn(t)} |-> x] : x \in RequiredValues(t, emails)}

\* Fields a caller hands to Update.
UpdateFields(t, ids, emails) ==
    IF t = "messages"
    THEN {[visitor_id |-> v] : v \in ids \cup {NULL}}
         \cup {[content |-> c] : c \in Texts \cup {NULLSTR}}
    ELSE {[c \in {RequiredColumn(t)} |-> x] :
                    x \in RequiredValues(t, emails) \cup {NULLSTR}}
         \cup (IF t = "visitors" THEN {[id |-> i] : i \in ids} ELSE {})

\* Timestamps a caller supplies itself.
TimedFields ==
    {[c \in {k} |-> x] : k \in TimestampMixin, x \in Times}
        \cup {[created_at |-> x, updated_at |-> y] : x \in Times, y \in Times}

\* f extended by the fields g.
Merge(f, g) == [c \in DOMAIN f \cup DOMAIN g |-> IF c \in DOMAIN g THEN g[c] ELSE f[c]]

\* The identifiers uuid.uuid4 can draw for the fields f: any one; the draw is
\* not made when the caller supplies the id.
Uuid4(f, ids) == IF "id" \in DOMAIN f THEN {f.id} ELSE ids

\* ----------------------------------------------------------- specifications
\* Callers of the Visitor and Message operations that leave the timestamps
\* to the storage layer.
Next ==
    \/ \E t \in OwnerTables : \E f \in CreateFields(t, IDs, Emails) :
        \E u \in Uuid4(f, IDs) :
            RowCount < MaxRows /\ Create(t, f, u)
    \/ \E t \in OwnerTables : \E id \in IDs : Read(t, id)
    \/ \E t \in OwnerTables : \E id \in IDs : \E f \in UpdateFields(t, IDs, Emails) :
            Update(t, id, f)
    \/ \E t \in OwnerTables : \E id \in IDs : Delete(t, id)
    \/ \E t \in OwnerTables : \E id \in IDs : Serialize(t, id)

Spec == Init /\ [][Next]_vars

\* The tables an operation on table t can touch: a table shares rows with no
\* other, apart from visitors and messages.
Family(t) == IF t \in OwnerTables THEN OwnerTables ELSE {t}

\* Callers of the operations of all four entity kinds, with the storage clock
\* running, that supply timestamps of their own or leave them out.  The
\* callers work on one family of tables at a time.
NextAll ==
    \/ Tick
    \/ \E t \in Tables : \E f \in CreateFields(t, TimedIDs, TimedEmails) :
        \E u \in Uuid4(f, TimedIDs) :
            /\ \A x \in Tables \ Family(t) : db[x] = {}
            /\ Create(t, f, u)
    \/ \E t \in Tables : \E f \in ValidFields(t, TimedIDs, TimedEmails) :
        \E g \in TimedFields : \E u \in Uuid4(f, TimedIDs) :
            /\ \A x \in Tables \ Family(t) : db[x] = {}
            /\ Create(t, Merge(f, g), u)
    \/ \E t \in Tables : \E id \in TimedIDs : Read(t, id)
    \/ \E t \in Tables : \E id \in TimedIDs :
        \E f \in UpdateFields(t, TimedIDs, TimedEmails) \cup TimedFields :
            Update(t, id, f)
    \/ \E t \in Tables : \E id \in TimedIDs : Delete(t, id)
    \/ \E t \in Tables : \E id \in TimedIDs : Serialize(t, id)

SpecAll == Init /\ [][NextAll]_vars

\* The e-mail the callers of the transactional specification give Visitor i.
TxEmail(i) == IF i = 1 THEN "a@x.com" ELSE "b@x.com"

\* The statements the concurrent callers issue, on Visitors TxVisitorIDs and
\* Messages TxMessageIDs, with identifiers of their own.
Statements ==
    {[kind |-> "Create", t |-> "visitors", id |-> i,
      f |-> [id |-> i, email |-> TxEmail(i)]] : i \in TxVisitorIDs}
    \cup {[kind |-> "Create", t |-> "messages", id |-> i,
           f |-> [id |-> i, visitor_id |-> v, content |-> "hi"]] :
                i \in TxMessageIDs, v \in TxVisitorIDs}
    \cup {[kind |-> "Update", t |-> "messages", id |-> i,
           f |-> [visitor_id |-> v]] : i \in TxMessageIDs, v \in TxVisitorIDs}
    \cup {[kind |-> "Delete", t |-> "visitors", id |-> i, f |-> NoFields] :
                i \in TxVisitorIDs}
    \cup {[kind |-> "Delete", t |-> "messages", id |-> i, f |-> NoFields] :
                i \in TxMessageIDs}

\* Several callers, each running one operation at a time as a transaction.
NextTx ==
    \/ \E c \in Callers : \E stmt \in Statements : Begin(c, stmt)
    \/ \E c \in Callers : Execute(c)
    \/ \E c \in Callers : Commit(c)
    \/ \E c \in Callers : Rollback(c)

SpecTx == Init /\ [][NextTx]_vars

\* ------------------------------------------------------------------ claims
\* The step is one of operation name on table t (every operation records it).
Did(name, t) == op' = <<name, t>>

\* C1: Delete of a stored Visitor v with N >= 0 Messages removes v and all N
\* Messages in the one step; in the state after it, Read of v and Read of each
\* of those Messages yields NotFound.
C1_DeleteVisitorCascades ==
    [][Did("Delete", "visitors") => \A v \in IDs :
          (Delete("visitors", v) /\ v \in Ids(visitors)) =>
              /\ res' = OK
              /\ ReadResult("visitors", v)' = NotFound
              /\ \A m \in messages :
                    m.visitor_id = v =>
                        /\ m \notin messages'
                        /\ ReadResult("messages", m.id)' = NotFound]_vars

\* A Visitor with two Messages has just been deleted.
C1_Witness ==
    /\ op = <<"Delete", "visitors">>
    /\ res = OK
    /\ Cardinality(cascaded) = 2

\* The step failed with ConstraintViolation and left the store unchanged.
Refused == res' = ConstraintViolation /\ db' = db

\* C2: no two stored Visitors have the same email; Create(Visitor) with an
\* email a stored Visitor holds, and Update of a stored Visitor's email to one
\* a different stored Visitor holds, fail with ConstraintViolation and leave
\* the store unchanged (stated by contraposition: a step that is not so
\* refused is no Create or Update of a Visitor with such an email).
C2_EmailUnique ==
    /\ [](\A a \in visitors : \A b \in visitors : a.email = b.email => a = b)
    /\ [][(Did("Create", "visitors") /\ ~Refused) =>
          \A f \in CreateFields("visitors", IDs, Emails) : \A u \in Uuid4(f, IDs) :
            ("email" \in DOMAIN f /\ \E v \in visitors : v.email = f.email) =>
                ~Create("visitors", f, u)]_vars
    /\ [][(Did("Update", "visitors") /\ ~Refused) =>
          \A id \in IDs : \A f \in UpdateFields("visitors", IDs, Emails) :
            (/\ id \in Ids(visitors)
             /\ "email" \in DOMAIN f
             /\ \E v \in visitors : v.id # id /\ v.email = f.email) =>
                ~Update("visitors", id, f)]_vars

\* With two Visitors stored, a write was refused for its email.
C2_Witness ==
    /\ op[2] = "visitors"
    /\ res = ConstraintViolation
    /\ err = "unique"
    /\ Cardinality(visitors) = 2

\* C3: Create(Message) whose visitor_id is not the id of a Visitor in the
\* store fails with ConstraintViolation and stores no Message (stated by
\* contraposition: a step that does not fail so is no Create(Message) with
\* such a visitor_id).
C3_MessageNeedsVisitor ==
    [][(Did("Create", "messages") /\ ~(res' = ConstraintViolation /\ messages' = messages)) =>
        \A f \in CreateFields("messages", IDs, Emails) : \A u \in Uuid4(f, IDs) :
          ("visitor_id" \in DOMAIN f /\ f.visitor_id \notin Ids(visitors)) =>
              ~Create("messages", f, u)]_vars

\* A Message for a Visitor that was stored once and is deleted was refused.
C3_Witness ==
    /\ op = <<"Create", "messages">>
    /\ res = ConstraintViolation
    /\ err = "foreign_key"
    /\ everIds # {}
    /\ visitors = {}

\* C4 as stated: every successful Update of a record, whether its timestamps
\* were defaulted or supplied by the caller that created it, leaves updated_at
\* >= the previous updated_at and >= created_at.  (Stated for the Updates that
\* supply no timestamp themselves.)
C4_UpdatedAtNeverEarlier ==
    [][\A t \in Tables : Did("Update", t) => \A id \in TimedIDs :
       \A f \in UpdateFields(t, TimedIDs, TimedEmails) :
          (Update(t, id, f) /\ res' = OK) =>
              \A o \in Lookup(t, id) : \A n \in ret' :
                  /\ n.updated_at >= o.updated_at
                  /\ n.updated_at >= n.created_at]_vars

\* C4 as amended: a successful Update that supplies no timestamp of its own
\* sets updated_at to the storage clock; that is >= the previous updated_at
\* and >= created_at whenever neither of the two is later than the clock.
C4_UpdatedAtIsClock ==
    [][\A t \in Tables : Did("Update", t) => \A id \in TimedIDs :
       \A f \in UpdateFields(t, TimedIDs, TimedEmails) :
          (Update(t, id, f) /\ res' = OK) =>
              \A o \in Lookup(t, id) : \A n \in ret' :
                  /\ n.updated_at = now
                  /\ n.created_at = o.created_at
                  /\ (o.updated_at <= now /\ o.created_at <= now) =>
                        /\ n.updated_at >= o.updated_at
                        /\ n.updated_at >= n.created_at]_vars

\* A Message was updated after the clock moved on from its creation.
C4_Witness ==
    /\ op = <<"Update", "messages">>
    /\ res = OK
    /\ \E n \in ret : n.updated_at > n.created_at /\ n.updated_at = now

\* C5 as stated: a successful Create(Visitor) returns the input email and an
\* id that no Visitor stored now or earlier has had.
C5_IdNeverUsedBefore ==
    [][(Did("Create", "visitors") /\ res' = OK) =>
        \A f \in CreateFields("visitors", IDs, Emails) : \A u \in Uuid4(f, IDs) :
          Create("visitors", f, u) =>
              \A r \in ret' : r.email = f.email /\ r.id \notin everIds]_vars

\* C5 as amended: a successful Create(Visitor) returns the stored record, with
\* the input email and an id that no Visitor in the store has; no two stored
\* records of a kind share an id.
C5_IdUniqueAmongStored ==
    /\ [](\A t \in Tables : \A a \in db[t] : \A b \in db[t] : a.id = b.id => a = b)
    /\ [][(Did("Create", "visitors") /\ res' = OK) =>
          \A f \in CreateFields("visitors", IDs, Emails) : \A u \in Uuid4(f, IDs) :
            Create("visitors", f, u) =>
                /\ ret' # {}
                /\ ret' \subseteq visitors'
                /\ \A r \in ret' : r.email = f.email /\ r.id \notin Ids(visitors)]_vars

\* A second Visitor was created beside a stored one.
C5_Witness ==
    /\ op = <<"Create", "visitors">>
    /\ res = OK
    /\ Cardinality(visitors) = 2
    /\ ret \subseteq visitors

\* C6: to_dict of a Message is a flat mapping whose keys are exactly id,
\* visitor_id, subject, content, created_at and updated_at, with no visitor
\* key, each key mapped to the record's value unchanged.
C6_MessageToDict ==
    [][(Did("Serialize", "messages") /\ res' = OK) => \A id \in IDs :
          Serialize("messages", id) =>
              /\ ret' # {}
              /\ \A d \in ret' :
                    /\ DOMAIN d = {"id", "visitor_id", "subject", "content",
                                   "created_at", "updated_at"}
                    /\ "visitor" \notin DOMAIN d
                    /\ \E m \in messages :
                          /\ m.id = id
                          /\ d.id = m.id
                          /\ d.visitor_id = m.visitor_id
                          /\ d.subject = m.subject
                          /\ d.content = m.content
                          /\ d.created_at = m.created_at
                          /\ d.updated_at = m.updated_at]_vars

\* A Message with a subject was serialized.
C6_Witness ==
    /\ op = <<"Serialize", "messages">>
    /\ res = OK
    /\ \E d \in ret : d.subject \in Subjects /\ d.content \in Texts

\* The required column of the fields f is left out or None.
Missing(f, c) == c \notin DOMAIN f \/ f[c] = Null(c)

\* C7: Create of a Visitor without email, an Achievement without title, a
\* GalleryItem without image_url, or a Message without content or without
\* visitor_id fails with ConstraintViolation and stores nothing; every stored
\* record has its required fields.
C7_RequiredFields ==
    /\ [](/\ \A r \in visitors : r.email # NULLSTR
          /\ \A r \in achievements : r.title # NULLSTR
          /\ \A r \in gallery : r.image_url # NULLSTR
          /\ \A r \in messages : r.content # NULLSTR /\ r.visitor_id # NULL)
    /\ [][\A t \in Tables : Did("Create", t) =>
          \A f \in CreateFields(t, TimedIDs, TimedEmails) : \A u \in Uuid4(f, TimedIDs) :
            (/\ \/ t = "visitors" /\ Missing(f, "email")
                \/ t = "achievements" /\ Missing(f, "title")
                \/ t = "gallery" /\ Missing(f, "image_url")
                \/ t = "messages" /\ (Missing(f, "content") \/ Missing(f, "visitor_id"))
             /\ Create(t, f, u)) =>
                (res' = ConstraintViolation /\ db' = db)]_vars

\* A GalleryItem without image_url was refused.
C7_Witness ==
    /\ op = <<"Create", "gallery">>
    /\ res = ConstraintViolation
    /\ err = "not_null"

\* C8: Read, Update and Delete of an id that is not in the store signal
\* NotFound and leave the store unchanged, for every entity kind.
C8_AbsentIdNotFound ==
    [][\A t \in Tables : op'[2] = t => \A id \in TimedIDs :
          id \notin Ids(db[t]) =>
              /\ Read(t, id) => (res' = NotFound /\ db' = db)
              /\ Delete(t, id) => (res' = NotFound /\ db' = db)
              /\ \A f \in UpdateFields(t, TimedIDs, TimedEmails) \cup TimedFields :
                    Update(t, id, f) => (res' = NotFound /\ db' = db)]_vars

\* An Update of a Message met no record, after a Visitor had been stored and
\* removed.
C8_Witness ==
    /\ op = <<"Update", "messages">>
    /\ res = NotFound
    /\ everIds # {}
    /\ visitors = {}

\* C10: in every reachable state every stored Message's visitor_id is the id
\* of exactly one stored Visitor.
C10_ReferentialIntegrity ==
    \A m \in messages : Cardinality({v \in visitors : v.id = m.visitor_id}) = 1

\* With a Message stored, an Update that would have left a Message without
\* its Visitor was refused.
C10_Witness ==
    /\ op[1] = "Update"
    /\ res = ConstraintViolation
    /\ err = "foreign_key"
    /\ messages # {}

\* The visitors ids the open transaction of caller c deletes.
Deleting(c) == IF tx[c].pc = "open" THEN Ids(tx[c].del["visitors"]) ELSE {}

\* No Message of the rows d is without its Visitor.
NoOrphan(d) == \A m \in d["messages"] : \E v \in d["visitors"] : v.id = m.visitor_id

\* C9: with concurrent callers, each operation one transaction, no caller
\* ever observes a Message whose Visitor is gone, neither among the committed
\* rows nor together with its own uncommitted writes; while a Visitor's delete
\* is open no other transaction holds an uncommitted Message of that Visitor,
\* when it commits the Visitor and all its Messages are gone together, and a
\* Create(Message) executed for a Visitor that is gone fails with
\* ConstraintViolation.
C9_CascadeAllOrNothing ==
    /\ [](NoOrphan(db) /\ \A c \in Callers : NoOrphan(View(c)))
    /\ [](\A c \in Callers : \A o \in Callers \ {c} :
            tx[o].pc = "open" =>
                \A m \in tx[o].ins["messages"] : m.visitor_id \notin Deleting(c))
    /\ [][\A c \in Callers :
            (Commit(c) /\ Deleting(c) # {}) =>
                /\ Ids(visitors') \cap Deleting(c) = {}
                /\ \A m \in messages' : m.visitor_id \notin Deleting(c)]_vars
    /\ [][\A c \in Callers :
            (/\ Execute(c)
             /\ tx[c].stmt.kind = "Create"
             /\ tx[c].stmt.t = "messages"
             /\ tx[c].stmt.f.visitor_id \notin Ids(visitors)) =>
                (res' = ConstraintViolation /\ tx'[c].pc = "idle")]_vars

\* A Create(Message) for a Visitor waits while another caller's delete of
\* that Visitor, cascaded to a Message, is executed and not committed.
C9_Witness ==
    \E c \in Callers : \E o \in Callers \ {c} :
        /\ tx[c].pc = "open"
        /\ tx[c].del["messages"] # {}
        /\ tx[o].pc = "waiting"
        /\ tx[o].stmt.kind = "Create"
        /\ tx[o].stmt.t = "messages"
        /\ tx[o].stmt.f.visitor_id \in Deleting(c)
        /\ Blocked(o, tx[o].stmt)

====
